---- MODULE Spec2Model ----
(***************************************************************************)
(* Model of the vertex puzzle core: the adjacency index built by           *)
(* PuzzleData::from_reader (src/src/geometry/mod.rs) and the PuzzleState   *)
(* state machine (src/src/puzzle_state/mod.rs).                            *)
(*                                                                         *)
(* Vertices and triangles are addressed by their 0-based parse-order index *)
(* as in the source.  An edge is a pair <<a, b>> of vertex indices.  A     *)
(* HashMap is a function whose DOMAIN is the set of keys present, so that  *)
(* a lookup of an absent key is distinguishable from an empty entry.       *)
(***************************************************************************)
EXTENDS Integers, Sequences, FiniteSets

VARIABLES data, state, panicked, out, load

vars == <<data, state, panicked, out, load>>

\* ------------------------------------------------------------------------
\* Bounds
\* ------------------------------------------------------------------------

\* Number of entries of MeshCatalog the geometry is drawn from.
NumMeshes == 4

\* Number of lines of a mesh description that the loader is fed.
MaxLines == 5

\* triangle_reqs is a Vec<u32> and the edge counts are usize.  The model
\* computes "-= 1", "+= 1" and "-" on unbounded integers: a u32/usize
\* underflow of the code (a fault in a debug build, a wrap-around in a
\* release build) shows in the model as a negative value, which the
\* invariants on these counters exclude.

\* ------------------------------------------------------------------------
\* Geometry index (PuzzleData)
\* ------------------------------------------------------------------------

Min2(a, b) == IF a < b THEN a ELSE b
Max2(a, b) == IF a < b THEN b ELSE a


\* Fault injection: the three vertices are taken in the order of the line.
Sort3_AsWritten(t) == <<t[1], t[2], t[3]>>
\* sorted = triangle_data[0..3].to_vec(); sorted.sort()
Sort3(t) ==
    LET lo == Min2(t[1], Min2(t[2], t[3]))
        hi == Max2(t[1], Max2(t[2], t[3]))
        mid == (t[1] + t[2] + t[3]) - lo - hi
    IN  <<lo, mid, hi>>

\* [(sorted[0], sorted[1]), (sorted[1], sorted[2]), (sorted[0], sorted[2])]
EdgesOfSorted(t) ==
    LET sorted == Sort3(t)
    IN  << <<sorted[1], sorted[2]>>, <<sorted[2], sorted[3]>>, <<sorted[1], sorted[3]>> >>

\* Fault injection: an edge keeps at most two incident triangles.
PushTriangle_TwoSlots(m, e, idx) ==
    [k \in (DOMAIN m) \cup {e} |->
        IF k = e
        THEN (IF e \in DOMAIN m
              THEN (IF Len(m[e]) < 2 THEN Append(m[e], idx) ELSE m[e])
              ELSE <<idx>>)
        ELSE m[k]]

\* out.edge_to_triangles.entry(e).or_insert(vec![]).push(idx)
PushTriangle(m, e, idx) ==
    [k \in (DOMAIN m) \cup {e} |->
        IF k = e
        THEN (IF e \in DOMAIN m THEN Append(m[e], idx) ELSE <<idx>>)
        ELSE m[k]]

\* The loop "for (idx, triangle_data) in out.triangles.iter().enumerate()":
\* acc holds edge_to_triangles and triangle_to_edges built so far, idx is
\* the 0-based index of the next triangle.
RECURSIVE AdjacencyPass(_, _, _)
AdjacencyPass(triangles, idx, acc) ==
    IF idx >= Len(triangles) THEN acc
    ELSE
        LET es  == EdgesOfSorted(triangles[idx + 1])
            e2t == PushTriangle(PushTriangle(PushTriangle(
                       acc.edge_to_triangles, es[1], idx), es[2], idx), es[3], idx)
            t2e == [k \in (DOMAIN acc.triangle_to_edges) \cup {idx} |->
                       IF k = idx THEN es ELSE acc.triangle_to_edges[k]]
        IN  AdjacencyPass(triangles, idx + 1,
                          [edge_to_triangles |-> e2t, triangle_to_edges |-> t2e])

\* The loop "for edge in out.edge_to_triangles.keys()": every key is entered
\* under both of its endpoints.
VertexToEdges(e2t) ==
    [v \in {e[1] : e \in DOMAIN e2t} \cup {e[2] : e \in DOMAIN e2t} |->
        {e \in DOMAIN e2t : e[1] = v \/ e[2] = v}]

\* The PuzzleData that from_reader returns for a stream with num_vertices
\* vertex lines and the given accepted triangle lines.
BuildData(num_vertices, triangles) ==
    LET adj == AdjacencyPass(triangles, 0,
                   [edge_to_triangles |-> <<>>, triangle_to_edges |-> <<>>])
    IN  [num_vertices      |-> num_vertices,
         triangles         |-> triangles,
         edge_to_triangles |-> adj.edge_to_triangles,
         triangle_to_edges |-> adj.triangle_to_edges,
         vertices_to_edges |-> VertexToEdges(adj.edge_to_triangles)]

num_triangles(d) == Len(d.triangles)

\* Option<&Vec<usize>>: <<>> stands for None (a present entry is never empty).
triangles_with_edge(d, edge) ==
    IF edge \in DOMAIN d.edge_to_triangles THEN d.edge_to_triangles[edge] ELSE <<>>

num_edges_from_vertex(d, vertex) ==
    IF vertex \in DOMAIN d.vertices_to_edges
    THEN Cardinality(d.vertices_to_edges[vertex]) ELSE 0

get_edges_for_triangle(d, triangle) == d.triangle_to_edges[triangle]

\* Geometries the puzzle is played on: vertex count and triangle lines
\* <<v0, v1, v2, color>> as written in the mesh description.
MeshCatalog ==
    << \* no triangle at all
       [num_vertices |-> 2, triangles |-> <<>>],
       \* a single triangle given in unsorted vertex order; vertex 3 is in no triangle
       [num_vertices |-> 4, triangles |-> << <<2, 0, 1, 0>> >>],
       \* two triangles sharing the edge (1,2)
       [num_vertices |-> 4, triangles |-> << <<0, 1, 2, 0>>, <<3, 2, 1, 0>> >>],
       \* non-manifold: three triangles sharing the edge (1,2)
       [num_vertices |-> 5,
        triangles |-> << <<0, 1, 2, 0>>, <<1, 2, 3, 0>>, <<4, 2, 1, 0>> >>],
       \* a strip of three triangles
       [num_vertices |-> 5,
        triangles |-> << <<0, 1, 2, 0>>, <<2, 1, 3, 0>>, <<2, 3, 4, 0>> >>] >>

Meshes ==
    {MeshCatalog[i] : i \in 1..Min2(NumMeshes, Len(MeshCatalog))}

Vertices(d) == 0..(d.num_vertices - 1)
Triangles(d) == 0..(num_triangles(d) - 1)

\* Edge arguments a caller can pass: ordered pairs of distinct vertices.
EdgeArgs(d) == {e \in Vertices(d) \X Vertices(d) : e[1] # e[2]}

\* ------------------------------------------------------------------------
\* Mesh description parsing (the line loop of PuzzleData::from_reader)
\*
\* A line is the sequence of its whitespace-separated tokens.  A token is an
\* integer literal, or the word NotNumeric for text that is no number:
\* "-1" parses as f32 but not as u32 or u8, "256" parses as u32 but not as u8.
\* ------------------------------------------------------------------------

NotNumeric == -2

ParsesF32(tok) == tok # NotNumeric
ParsesU32(tok) == tok >= 0
ParsesU8(tok)  == tok >= 0 /\ tok <= 255

\* The accumulators of from_reader that the line loop fills: the lengths of
\* out.vertices and out.colors, and out.triangles.
EmptyOut == [num_vertices |-> 0, num_colors |-> 0, triangles |-> <<>>]

Reading(o)  == [out |-> o, load |-> "reading"]
Failed(err) == [out |-> EmptyOut, load |-> err]

\* 2 => { // vertex
ParseVertex(o, split) ==
    IF ParsesF32(split[1]) /\ ParsesF32(split[2])
    THEN Reading([o EXCEPT !.num_vertices = @ + 1])
    ELSE Failed("InvalidVertex")

\* 3 => { // RGB color
ParseColor(o, split) ==
    IF ParsesU8(split[1]) /\ ParsesU8(split[2]) /\ ParsesU8(split[3])
    THEN Reading([o EXCEPT !.num_colors = @ + 1])
    ELSE Failed("InvalidColor")

\* Fault injection: the vertex index is compared with ">" instead of ">=".
VertexIndexOk_OffByOne(o, tok) == ParsesU32(tok) /\ ~(tok > o.num_vertices)

\* s.parse::<u32>() succeeds and idx < out.vertices.len()
VertexIndexOk(o, tok) == ParsesU32(tok) /\ ~(tok >= o.num_vertices)

\* sort(); dedup(); len() < 3
HasDuplicate(split) == Cardinality({split[1], split[2], split[3]}) < 3

\* split[3].parse::<u32>() succeeds and !(color_idx > out.colors.len())
ColorIndexOk(o, tok) == ParsesU32(tok) /\ ~(tok > o.num_colors)

\* 4 => { // triangle
ParseTriangle(o, split) ==
    IF ~(\A i \in 1..3 : VertexIndexOk(o, split[i])) THEN Failed("InvalidTriangle")
    ELSE IF HasDuplicate(split) THEN Failed("InvalidTriangle")
    ELSE IF ~ColorIndexOk(o, split[4]) THEN Failed("InvalidTriangle")
    ELSE Reading([o EXCEPT !.triangles = Append(@, split)])

\* match split.len()
ParseLine(o, split) ==
    CASE Len(split) = 2 -> ParseVertex(o, split)
      [] Len(split) = 3 -> ParseColor(o, split)
      [] Len(split) = 4 -> ParseTriangle(o, split)
      [] OTHER          -> Failed("ParseFailure")

\* Lines the reader may yield.
VertexLines == {NotNumeric, -1, 0} \X {NotNumeric, 0}
ColorLines == {<<255, 255, 0>>, <<255, 0, 256>>, <<-1, 0, 0>>, <<0, NotNumeric, 0>>}
VertexIndexTokens == -1..(MaxLines - 2)
ColorIndexTokens == -1..2
TriangleLines ==
    VertexIndexTokens \X VertexIndexTokens \X VertexIndexTokens \X ColorIndexTokens
OtherLines == {<<>>, <<0>>, <<0, 1, 2, 0, 0>>}
Lines == VertexLines \cup ColorLines \cup TriangleLines \cup OtherLines

\* Every accepted line adds one vertex, one color or one triangle, so the sum
\* is the number of lines read so far.
WithinCaps(o) == o.num_vertices + o.num_colors + Len(o.triangles) <= MaxLines

\* ------------------------------------------------------------------------
\* Puzzle state machine (PuzzleState)
\* ------------------------------------------------------------------------

\* let edge_ordered = if edge.0 > edge.1 { (edge.1, edge.0) } else { *edge };
edge_ordered(edge) == IF edge[1] > edge[2] THEN <<edge[2], edge[1]>> ELSE edge

\* map.entry(k).or_insert(HashSet::new()).insert(x)
EntryInsert(m, k, x) ==
    [v \in (DOMAIN m) \cup {k} |->
        IF v = k THEN (IF k \in DOMAIN m THEN m[k] ELSE {}) \cup {x} ELSE m[v]]


\* Fault injection: the entry is left as it is.
EntryRemove_Noop(m, k, x) == m
\* map.entry(k).and_modify(|e| { e.remove(&x); })
EntryRemove(m, k, x) ==
    IF k \in DOMAIN m THEN [m EXCEPT ![k] = @ \ {x}] ELSE m

from_data(d) ==
    [triangle_reqs             |-> [t \in Triangles(d) |-> 3],
     unlocked_triangles        |-> {},
     connected_edges           |-> {},
     connected_edges_by_vertex |-> <<>>,
     permanent_edges_by_vertex |-> <<>>,
     permanent_edges           |-> {},
     permanent_vertices        |-> {}]

get_permanent_edges_for_vertex(self, vertex) ==
    IF vertex \in DOMAIN self.permanent_edges_by_vertex
    THEN Cardinality(self.permanent_edges_by_vertex[vertex]) ELSE 0

\* Fault injection: only the first endpoint of e_perm is considered for
\* promotion to permanent_vertices.
PermanentStep_FirstEndpointOnly(self, d, e_perm) ==
    LET by_vertex == EntryInsert(EntryInsert(self.permanent_edges_by_vertex,
                                             e_perm[1], e_perm), e_perm[2], e_perm)
        pv0 == IF Cardinality(by_vertex[e_perm[1]]) = num_edges_from_vertex(d, e_perm[1])
               THEN self.permanent_vertices \cup {e_perm[1]}
               ELSE self.permanent_vertices
    IN  [self EXCEPT !.permanent_edges_by_vertex = by_vertex,
                     !.permanent_edges = @ \cup {e_perm},
                     !.permanent_vertices = pv0]

\* Body of "for e_perm in data.get_edges_for_triangle(triangle)".
PermanentStep(self, d, e_perm) ==
    LET by_vertex == EntryInsert(EntryInsert(self.permanent_edges_by_vertex,
                                             e_perm[1], e_perm), e_perm[2], e_perm)
        pv0 == IF Cardinality(by_vertex[e_perm[1]]) = num_edges_from_vertex(d, e_perm[1])
               THEN self.permanent_vertices \cup {e_perm[1]}
               ELSE self.permanent_vertices
        pv1 == IF Cardinality(by_vertex[e_perm[2]]) = num_edges_from_vertex(d, e_perm[2])
               THEN pv0 \cup {e_perm[2]}
               ELSE pv0
    IN  [self EXCEPT !.permanent_edges_by_vertex = by_vertex,
                     !.permanent_edges = @ \cup {e_perm},
                     !.permanent_vertices = pv1]

\* Fault injection: the third edge of the triangle is not made permanent.
MakePermanent_TwoEdges(self, d, triangle) ==
    LET es == get_edges_for_triangle(d, triangle)
    IN  PermanentStep(PermanentStep(self, d, es[1]), d, es[2])

\* The three edges of an unlocked triangle are made permanent, in order.
MakePermanent(self, d, triangle) ==
    LET es == get_edges_for_triangle(d, triangle)
    IN  PermanentStep(PermanentStep(PermanentStep(self, d, es[1]), d, es[2]), d, es[3])


\* Fault injection: a triangle is unlocked one edge early.
ConnectTriangle_UnlockEarly(self, d, triangle) ==
    LET req == self.triangle_reqs[triangle] - 1
        s1  == [self EXCEPT !.triangle_reqs[triangle] = req]
    IN  IF req <= 1
        THEN MakePermanent([s1 EXCEPT !.unlocked_triangles = @ \cup {triangle}],
                           d, triangle)
        ELSE s1
\* Body of "for &triangle in triangles_with_edge" in connect_edge.
ConnectTriangle(self, d, triangle) ==
    LET req == self.triangle_reqs[triangle] - 1
        s1  == [self EXCEPT !.triangle_reqs[triangle] = req]
    IN  IF req = 0
        THEN MakePermanent([s1 EXCEPT !.unlocked_triangles = @ \cup {triangle}],
                           d, triangle)
        ELSE s1

RECURSIVE ConnectTriangles(_, _, _)
ConnectTriangles(self, d, ts) ==
    IF ts = <<>> THEN self
    ELSE ConnectTriangles(ConnectTriangle(self, d, Head(ts)), d, Tail(ts))

\* Fault injection: the edge is stored as passed, not canonicalized.
connect_edge_Unordered(self, d, edge) ==
    IF edge \in self.connected_edges THEN self
    ELSE
        LET s1 == [self EXCEPT
                     !.connected_edges = @ \cup {edge},
                     !.connected_edges_by_vertex =
                         EntryInsert(EntryInsert(@, edge[1], edge), edge[2], edge)]
        IN  ConnectTriangles(s1, d, triangles_with_edge(d, edge_ordered(edge)))

\* Fault injection: no early return for an edge that is already connected.
connect_edge_NoGuard(self, d, edge) ==
    LET eo == edge_ordered(edge)
        s1 == [self EXCEPT
                 !.connected_edges = @ \cup {eo},
                 !.connected_edges_by_vertex =
                     EntryInsert(EntryInsert(@, edge[1], eo), edge[2], eo)]
    IN  ConnectTriangles(s1, d, triangles_with_edge(d, eo))

connect_edge(self, d, edge) ==
    LET eo == edge_ordered(edge)
    IN  IF eo \in self.connected_edges THEN self
        ELSE
            LET s1 == [self EXCEPT
                         !.connected_edges = @ \cup {eo},
                         !.connected_edges_by_vertex =
                             EntryInsert(EntryInsert(@, edge[1], eo), edge[2], eo)]
            IN  ConnectTriangles(s1, d, triangles_with_edge(d, eo))

\* Fault injection: the triangle is not taken out of unlocked_triangles.
DisconnectTriangle_KeepUnlocked(self, triangle) ==
    [self EXCEPT !.triangle_reqs[triangle] = @ + 1]

\* Body of "for &triangle in triangles_with_edge" in disconnect_edge.
DisconnectTriangle(self, triangle) ==
    [self EXCEPT
        !.unlocked_triangles =
            IF self.triangle_reqs[triangle] = 0 THEN @ \ {triangle} ELSE @,
        !.triangle_reqs[triangle] = @ + 1]

RECURSIVE DisconnectTriangles(_, _)
DisconnectTriangles(self, ts) ==
    IF ts = <<>> THEN self
    ELSE DisconnectTriangles(DisconnectTriangle(self, Head(ts)), Tail(ts))

\* Fault injection: a permanent edge is refused.
disconnect_edge_RefusePermanent(self, d, edge) ==
    LET eo == edge_ordered(edge)
    IN  IF eo \notin self.connected_edges \/ eo \in self.permanent_edges THEN self
        ELSE
            LET s1 == [self EXCEPT
                         !.connected_edges = @ \ {eo},
                         !.connected_edges_by_vertex =
                             EntryRemove(EntryRemove(@, edge[1], eo), edge[2], eo)]
            IN  DisconnectTriangles(s1, triangles_with_edge(d, eo))

\* Fault injection: no early return for an edge that is not connected.
disconnect_edge_NoGuard(self, d, edge) ==
    LET eo == edge_ordered(edge)
        s1 == [self EXCEPT
                 !.connected_edges = @ \ {eo},
                 !.connected_edges_by_vertex =
                     EntryRemove(EntryRemove(@, edge[1], eo), edge[2], eo)]
    IN  DisconnectTriangles(s1, triangles_with_edge(d, eo))

\* Fault injection: the edge is looked up as passed, not canonicalized.
disconnect_edge_Unordered(self, d, edge) ==
    IF edge \notin self.connected_edges THEN self
    ELSE
        LET s1 == [self EXCEPT
                     !.connected_edges = @ \ {edge},
                     !.connected_edges_by_vertex =
                         EntryRemove(EntryRemove(@, edge[1], edge), edge[2], edge)]
        IN  DisconnectTriangles(s1, triangles_with_edge(d, edge))

disconnect_edge(self, d, edge) ==
    LET eo == edge_ordered(edge)
    IN  IF eo \notin self.connected_edges THEN self
        ELSE
            LET s1 == [self EXCEPT
                         !.connected_edges = @ \ {eo},
                         !.connected_edges_by_vertex =
                             EntryRemove(EntryRemove(@, edge[1], eo), edge[2], eo)]
            IN  DisconnectTriangles(s1, triangles_with_edge(d, eo))

\* self.connected_edges_by_vertex[&vertex] faults when the key is absent.
IndexPanics(self, vertex) == vertex \notin DOMAIN self.connected_edges_by_vertex

\* Evaluated only where the indexing does not fault.
is_permanent_and_complete(self, vertex) ==
    LET num_permanent == get_permanent_edges_for_vertex(self, vertex)
        num_connected == Cardinality(self.connected_edges_by_vertex[vertex])
    IN  vertex \in self.permanent_vertices /\ num_permanent = num_connected

\* Fault injection: permanent edges are not skipped.
DisconnectIfNotPermanent_Always(self, d, edge) == disconnect_edge(self, d, edge)

\* Body of "for edge in edges.clone()" in disconnect_from_vertex.
DisconnectIfNotPermanent(self, d, edge) ==
    IF edge \in self.permanent_edges THEN self ELSE disconnect_edge(self, d, edge)

RECURSIVE DisconnectEach(_, _, _)
DisconnectEach(self, d, edges) ==
    IF edges = <<>> THEN self
    ELSE DisconnectEach(DisconnectIfNotPermanent(self, d, Head(edges)), d, Tail(edges))

\* The orders in which a HashSet may be iterated.
Orderings(S) ==
    {f \in [1..Cardinality(S) -> S] : \A i, j \in 1..Cardinality(S) : f[i] = f[j] => i = j}

\* disconnect_from_vertex past the permanence check, iterating the cloned
\* edge set in the given order.
disconnect_from_vertex(self, d, vertex, order) ==
    IF is_permanent_and_complete(self, vertex) THEN self
    ELSE DisconnectEach(self, d, order)

\* connected count minus permanent count, both usize: a negative value here
\* is an underflow of the subtraction in the code.
get_non_permanent_edges_for_vertex(self, vertex) ==
    (IF vertex \in DOMAIN self.connected_edges_by_vertex
     THEN Cardinality(self.connected_edges_by_vertex[vertex]) ELSE 0)
        - get_permanent_edges_for_vertex(self, vertex)


\* Rust checks usize arithmetic for overflow in a debug build and wraps it
\* in a release build.
Builds == {"debug", "release"}

\* The subtraction in get_non_permanent_edges_for_vertex underflows.
Underflows(self, vertex) == get_non_permanent_edges_for_vertex(self, vertex) < 0

\* "x > 0" and "x == 0" on a usize whose value is the integer x modulo 2^64,
\* for |x| < 2^64: a wrapped difference is a large positive number.
UsizePositive(x) == x # 0
UsizeZero(x) == x = 0

\* not_done || has_non_permanent, both operands evaluated; fault is the panic
\* of the checked subtraction.
should_be_interactable(self, d, vertex, build) ==
    IF Underflows(self, vertex) /\ build = "debug"
    THEN [fault |-> TRUE, value |-> FALSE]
    ELSE LET not_done == num_edges_from_vertex(d, vertex)
                             > get_permanent_edges_for_vertex(self, vertex)
             has_non_permanent ==
                 UsizePositive(get_non_permanent_edges_for_vertex(self, vertex))
         IN  [fault |-> FALSE, value |-> not_done \/ has_non_permanent]

\* get_vertex_near: near is the set of vertices within the threshold of the
\* point; the scan runs in index order from idx and asks should_be_interactable
\* only for vertices of near. found is {} for None.
RECURSIVE VertexScan(_, _, _, _, _)
VertexScan(d, self, near, build, idx) ==
    IF idx >= d.num_vertices THEN [fault |-> FALSE, found |-> {}]
    ELSE IF idx \notin near THEN VertexScan(d, self, near, build, idx + 1)
    ELSE LET r == should_be_interactable(self, d, idx, build)
         IN  IF r.fault THEN [fault |-> TRUE, found |-> {}]
             ELSE IF r.value THEN [fault |-> FALSE, found |-> {idx}]
             ELSE VertexScan(d, self, near, build, idx + 1)

get_vertex_near(d, self, near, build) == VertexScan(d, self, near, build, 0)

\* The index buffer of PointQuad::new: two triangles over four corners.
PointQuadIndices(offset) ==
    <<offset, offset + 1, offset + 2, offset, offset + 2, offset + 3>>

\* The loop "for (idx, &p) in (&data.vertices).iter().enumerate()" of
\* from_data_and_state; acc holds the quads emitted so far. remaining can not
\* underflow: the permanent edges of a vertex are mesh edges of that vertex.
RECURSIVE QuadLoop(_, _, _, _, _)
QuadLoop(d, self, idx, idx_offset, acc) ==
    IF idx >= d.num_vertices THEN acc
    ELSE LET remaining == num_edges_from_vertex(d, idx)
                              - get_permanent_edges_for_vertex(self, idx)
             non_permanent == get_non_permanent_edges_for_vertex(self, idx)
         IN  IF UsizeZero(remaining) /\ UsizeZero(non_permanent)
             THEN QuadLoop(d, self, idx + 1, idx_offset, acc)
             ELSE QuadLoop(d, self, idx + 1, idx_offset + 4,
                           Append(acc, [vertex    |-> idx,
                                        remaining |-> remaining,
                                        indices   |-> PointQuadIndices(idx_offset)]))

\* The point quads of the dynamic buffer; in a debug build the first
\* underflowing subtraction ends the call and no buffer is returned.
from_data_and_state(d, self, build) ==
    IF build = "debug" /\ \E v \in Vertices(d) : Underflows(self, v)
    THEN [fault |-> TRUE, point_quads |-> <<>>]
    ELSE [fault |-> FALSE, point_quads |-> QuadLoop(d, self, 0, 0, <<>>)]
\* Fault injection: finished as soon as any triangle is unlocked.
is_finished_AnyUnlocked(self) == self.unlocked_triangles # {}

is_finished(self) ==
    Cardinality(self.unlocked_triangles) = Cardinality(DOMAIN self.triangle_reqs)

\* ------------------------------------------------------------------------
\* Behaviours: a geometry is loaded, the state is built from it, and the
\* caller issues one call at a time.  A fault ends the run.
\* ------------------------------------------------------------------------

Init ==
    /\ \E m \in Meshes :
          /\ out = [num_vertices |-> m.num_vertices, num_colors |-> 1,
                    triangles |-> m.triangles]
          /\ data = BuildData(m.num_vertices, m.triangles)
    /\ load = "Ok"
    /\ state = from_data(data)
    /\ panicked = FALSE

ConnectEdge ==
    /\ ~panicked
    /\ \E edge \in EdgeArgs(data) : state' = connect_edge(state, data, edge)
    /\ UNCHANGED <<data, panicked, out, load>>

DisconnectEdge ==
    /\ ~panicked
    /\ \E edge \in EdgeArgs(data) : state' = disconnect_edge(state, data, edge)
    /\ UNCHANGED <<data, panicked, out, load>>

DisconnectFromVertex ==
    /\ ~panicked
    /\ \E vertex \in Vertices(data) :
        IF IndexPanics(state, vertex)
        THEN /\ panicked' = TRUE
             /\ state' = state
        ELSE /\ panicked' = FALSE
             /\ \E order \in Orderings(state.connected_edges_by_vertex[vertex]) :
                   state' = disconnect_from_vertex(state, data, vertex, order)
    /\ UNCHANGED <<data, out, load>>

Next == ConnectEdge \/ DisconnectEdge \/ DisconnectFromVertex

Spec == Init /\ [][Next]_vars

\* The guarded interface only: no direct disconnect_edge call.
NextGuarded == ConnectEdge \/ DisconnectFromVertex

SpecGuarded == Init /\ [][NextGuarded]_vars

\* Loading: from_reader consumes the lines the reader yields one by one and,
\* at the end of the stream, builds the adjacency maps and returns the
\* geometry, from which the caller builds the puzzle state.
InitLoad ==
    /\ out = EmptyOut
    /\ load = "reading"
    /\ data = BuildData(0, <<>>)
    /\ state = from_data(data)
    /\ panicked = FALSE

ReadLine ==
    /\ load = "reading"
    /\ \E split \in Lines :
          LET r == ParseLine(out, split)
          IN  /\ WithinCaps(r.out)
              /\ out' = r.out
              /\ load' = r.load
    /\ UNCHANGED <<data, state, panicked>>

EndOfStream ==
    /\ load = "reading"
    /\ load' = "Ok"
    /\ data' = BuildData(out.num_vertices, out.triangles)
    /\ state' = from_data(data')
    /\ UNCHANGED <<out, panicked>>

NextLoad == ReadLine \/ EndOfStream

SpecLoad == InitLoad /\ [][NextLoad]_vars

\* ------------------------------------------------------------------------
\* Vocabulary of the properties, taken from the triangle lines themselves
\* and not from the adjacency maps.
\* ------------------------------------------------------------------------

\* The three vertex indices of triangle t as written in its line.
CornersOf(d, t) == {d.triangles[t + 1][i] : i \in 1..3}

\* The canonical (smaller index first) edges of triangle t.
CanonicalEdges(d, t) ==
    {e \in CornersOf(d, t) \X CornersOf(d, t) : e[1] < e[2]}

Touches(e, v) == e[1] = v \/ e[2] = v

\* Triangles having the canonical edge e.
IncidentTriangles(d, e) == {t \in Triangles(d) : e \in CanonicalEdges(d, t)}

Swap(edge) == <<edge[2], edge[1]>>

\* ------------------------------------------------------------------------
\* C1: in every reachable state, for every triangle t, triangle_reqs[t] is
\* 3 minus the number of t's canonical edges in connected_edges, hence in
\* 0..3 (no underflow).
\* ------------------------------------------------------------------------
C1_ReqsCountMissingEdges ==
    \A t \in Triangles(data) :
        /\ state.triangle_reqs[t] =
               3 - Cardinality(CanonicalEdges(data, t) \cap state.connected_edges)
        /\ state.triangle_reqs[t] \in 0..3

\* A triangle that was unlocked and then lost one edge to disconnect_edge,
\* next to a triangle with a single edge left to connect.
C1_Witness ==
    \E t1, t2 \in Triangles(data) :
        /\ t1 # t2
        /\ CanonicalEdges(data, t1) \subseteq state.permanent_edges
        /\ state.triangle_reqs[t1] = 2
        /\ state.triangle_reqs[t2] = 1

\* ------------------------------------------------------------------------
\* C2: in every reachable state a triangle is in unlocked_triangles iff all
\* three of its canonical edges are connected, iff its requirement is 0.
\* ------------------------------------------------------------------------
C2_UnlockedIffAllEdges ==
    \A t \in Triangles(data) :
        /\ t \in state.unlocked_triangles
               <=> CanonicalEdges(data, t) \subseteq state.connected_edges
        /\ t \in state.unlocked_triangles <=> state.triangle_reqs[t] = 0

\* One triangle unlocked while another, unlocked earlier, has been re-locked
\* by a direct disconnect_edge.
C2_Witness ==
    \E t1, t2 \in Triangles(data) :
        /\ t1 \in state.unlocked_triangles
        /\ t2 \notin state.unlocked_triangles
        /\ CanonicalEdges(data, t2) \subseteq state.permanent_edges

\* ------------------------------------------------------------------------
\* C3 (under SpecGuarded: connect_edge and disconnect_from_vertex only):
\* a triangle that is in unlocked_triangles is still there after every step,
\* and none of its edges is disconnected by the step.
\* ------------------------------------------------------------------------
C3_UnlockIsPermanent ==
    [][\A t \in Triangles(data) :
          t \in state.unlocked_triangles =>
              /\ t \in state'.unlocked_triangles
              /\ CanonicalEdges(data, t) \subseteq state'.connected_edges]_vars

\* A corner of an unlocked triangle carries an extra non-permanent edge, so
\* that disconnect_from_vertex on it does disconnect something.
C3_Witness ==
    \E t \in state.unlocked_triangles : \E v \in CornersOf(data, t) :
        /\ ~IndexPanics(state, v)
        /\ \E order \in Orderings(state.connected_edges_by_vertex[v]) :
              disconnect_from_vertex(state, data, v, order) # state

\* ------------------------------------------------------------------------
\* C4: no runtime operation faults; disconnect_from_vertex on a vertex that
\* never had an edge connected is a no-op.
\* ------------------------------------------------------------------------
C4_NoFault == ~panicked

\* ------------------------------------------------------------------------
\* C5 as stated: for every vertex v of the geometry (one in no triangle
\* included), v is in permanent_vertices iff the number of permanent edges
\* touching v equals num_edges_from_vertex(v).
\* ------------------------------------------------------------------------
PermanentCount(v) == Cardinality({e \in state.permanent_edges : Touches(e, v)})

C5_Original ==
    \A v \in Vertices(data) :
        v \in state.permanent_vertices
            <=> PermanentCount(v) = num_edges_from_vertex(data, v)

\* C5 as amended: the equivalence holds for every vertex that has at least one
\* mesh edge; a vertex in no triangle is never in permanent_vertices.
C5_PermanentVertexIffAllEdges ==
    \A v \in Vertices(data) :
        IF num_edges_from_vertex(data, v) > 0
        THEN v \in state.permanent_vertices
                 <=> PermanentCount(v) = num_edges_from_vertex(data, v)
        ELSE v \notin state.permanent_vertices

\* One vertex promoted, another holding some but not all of its mesh edges
\* as permanent edges.
C5_Witness ==
    \E v1, v2 \in Vertices(data) :
        /\ v1 \in state.permanent_vertices
        /\ v2 \notin state.permanent_vertices
        /\ 0 < PermanentCount(v2)
        /\ PermanentCount(v2) < num_edges_from_vertex(data, v2)

\* ------------------------------------------------------------------------
\* C6: every canonical edge of every unlocked triangle is in permanent_edges
\* and in the permanent_edges_by_vertex entry of both of its endpoints.
\* ------------------------------------------------------------------------
InPermanentEntry(v, e) ==
    /\ v \in DOMAIN state.permanent_edges_by_vertex
    /\ e \in state.permanent_edges_by_vertex[v]

C6_UnlockedEdgesPermanent ==
    \A t \in state.unlocked_triangles : \A e \in CanonicalEdges(data, t) :
        /\ e \in state.permanent_edges
        /\ InPermanentEntry(e[1], e)
        /\ InPermanentEntry(e[2], e)

\* A triangle is unlocked while some permanent edge has been disconnected.
C6_Witness ==
    /\ state.unlocked_triangles # {}
    /\ state.permanent_edges \ state.connected_edges # {}

\* ------------------------------------------------------------------------
\* C7: connect_edge is idempotent from every reachable state: after
\* connect_edge(e), a second call with e in either vertex order changes
\* nothing.
\* ------------------------------------------------------------------------
C7_ConnectIdempotent ==
    \A edge \in EdgeArgs(data) :
        LET once == connect_edge(state, data, edge)
        IN  /\ connect_edge(once, data, edge) = once
            /\ connect_edge(once, data, Swap(edge)) = once

\* The first call connects a new edge and unlocks a triangle.
C7_Witness ==
    \E edge \in EdgeArgs(data) :
        LET once == connect_edge(state, data, edge)
        IN  /\ edge_ordered(edge) \notin state.connected_edges
            /\ once.unlocked_triangles # state.unlocked_triangles

\* ------------------------------------------------------------------------
\* C8: connect_edge(e) then disconnect_edge(e) restores e's membership in
\* connected_edges and every requirement counter.
\* ------------------------------------------------------------------------
NoneReachedZero(before, after) ==
    \A t \in Triangles(data) :
        after.triangle_reqs[t] = 0 => before.triangle_reqs[t] = 0

RoundTripRestores(edge) ==
    LET eo     == edge_ordered(edge)
        once   == connect_edge(state, data, edge)
        undone == disconnect_edge(once, data, edge)
    IN  NoneReachedZero(state, once) =>
            /\ (eo \in undone.connected_edges) <=> (eo \in state.connected_edges)
            /\ undone.triangle_reqs = state.triangle_reqs

\* C8 as stated: for any edge that is not in permanent_edges.
C8_Original ==
    \A edge \in EdgeArgs(data) :
        edge_ordered(edge) \notin state.permanent_edges => RoundTripRestores(edge)

\* C8 as amended: for any edge that is neither in permanent_edges nor already
\* in connected_edges.
C8_ConnectDisconnectRestores ==
    \A edge \in EdgeArgs(data) :
        (/\ edge_ordered(edge) \notin state.permanent_edges
         /\ edge_ordered(edge) \notin state.connected_edges)
            => RoundTripRestores(edge)

\* A new edge shared by two or more triangles is connected without unlocking
\* any of them, in a state where other edges are connected already.
C8_Witness ==
    \E edge \in EdgeArgs(data) :
        LET eo   == edge_ordered(edge)
            once == connect_edge(state, data, edge)
        IN  /\ eo \notin state.permanent_edges
            /\ eo \notin state.connected_edges
            /\ state.connected_edges # {}
            /\ Cardinality(IncidentTriangles(data, eo)) >= 2
            /\ once.triangle_reqs # state.triangle_reqs
            /\ NoneReachedZero(state, once)

\* ------------------------------------------------------------------------
\* C9: is_finished() is true iff the number of unlocked triangles is the
\* triangle count, iff every triangle has its three edges connected; on a
\* single-triangle mesh it is false with two edges connected and true with
\* three.
\* ------------------------------------------------------------------------
C9_FinishedIffAllUnlocked ==
    /\ is_finished(state)
           <=> Cardinality(state.unlocked_triangles) = num_triangles(data)
    /\ is_finished(state)
           <=> \A t \in Triangles(data) :
                   CanonicalEdges(data, t) \subseteq state.connected_edges
    /\ num_triangles(data) = 1 =>
           LET n == Cardinality(CanonicalEdges(data, 0) \cap state.connected_edges)
           IN  /\ n <= 2 => ~is_finished(state)
               /\ n = 3 => is_finished(state)

\* The single-triangle mesh, finished.
C9_Witness ==
    /\ num_triangles(data) = 1
    /\ is_finished(state)
    /\ CanonicalEdges(data, 0) \subseteq state.connected_edges

\* ------------------------------------------------------------------------
\* C10: connect_edge on an edge that is not yet connected lowers by exactly 1
\* the requirement of every triangle incident to the edge and leaves every
\* other requirement unchanged.
\* ------------------------------------------------------------------------
C10_ConnectDecrementsIncident ==
    \A edge \in EdgeArgs(data) :
        LET eo   == edge_ordered(edge)
            once == connect_edge(state, data, edge)
        IN  eo \notin state.connected_edges =>
                \A t \in Triangles(data) :
                    once.triangle_reqs[t] =
                        state.triangle_reqs[t]
                            - (IF t \in IncidentTriangles(data, eo) THEN 1 ELSE 0)

\* The new edge has more than two incident triangles, and there is a triangle
\* it is not an edge of.
C10_Witness ==
    \E edge \in EdgeArgs(data) :
        LET eo == edge_ordered(edge)
        IN  /\ eo \notin state.connected_edges
            /\ Cardinality(IncidentTriangles(data, eo)) > 2
            /\ connect_edge(state, data, edge).triangle_reqs # state.triangle_reqs

\* ------------------------------------------------------------------------
\* C11 (under SpecLoad): a triangle line whose color index is >= the number
\* of colors parsed so far fails with InvalidTriangle, so every stored
\* triangle carries a color index below the number of colors.
\* ------------------------------------------------------------------------
C11_ColorIndexInRange ==
    /\ load = "reading" =>
           \A split \in TriangleLines :
               split[4] >= out.num_colors =>
                   ParseLine(out, split).load = "InvalidTriangle"
    /\ \A i \in 1..Len(out.triangles) : out.triangles[i][4] < out.num_colors

\* ------------------------------------------------------------------------
\* C12 (under SpecLoad): every stored triangle has three pairwise distinct
\* vertex indices, each below the number of vertex lines read before it; a
\* triangle line that names a vertex index not yet parsed, or names one
\* twice, fails with InvalidTriangle.
\* ------------------------------------------------------------------------
PairwiseDistinct(split) ==
    split[1] # split[2] /\ split[1] # split[3] /\ split[2] # split[3]

StoredTrianglesValid(triangles, num_vertices) ==
    \A i \in 1..Len(triangles) :
        /\ PairwiseDistinct(triangles[i])
        /\ \A k \in 1..3 : triangles[i][k] \in 0..(num_vertices - 1)

C12_TriangleVerticesValid ==
    /\ StoredTrianglesValid(out.triangles, out.num_vertices)
    /\ load = "Ok" =>
           /\ data.triangles = out.triangles
           /\ StoredTrianglesValid(data.triangles, data.num_vertices)
    /\ load = "reading" =>
           \A split \in TriangleLines :
               LET r == ParseLine(out, split)
               IN  /\ r.load = "reading" =>
                       /\ PairwiseDistinct(split)
                       /\ \A k \in 1..3 : split[k] \in 0..(out.num_vertices - 1)
                       /\ r.out.triangles = Append(out.triangles, split)
                   /\ ((\E k \in 1..3 : split[k] >= out.num_vertices)
                          \/ ~PairwiseDistinct(split))
                       => r.load = "InvalidTriangle"

\* A triangle is stored, a further triangle line naming the next, not yet
\* parsed vertex index is refused, and the stream can still go on with the
\* vertex line that would define that index.
C12_Witness ==
    /\ load = "reading"
    /\ Len(out.triangles) >= 1
    /\ WithinCaps(ParseLine(out, <<0, 0>>).out)
    /\ \E split \in TriangleLines :
           /\ split[1] = out.num_vertices
           /\ PairwiseDistinct(split)
           /\ ParseLine(out, split).load = "InvalidTriangle"

\* ------------------------------------------------------------------------
\* C13: in every reachable state, for every vertex v,
\* get_non_permanent_edges_for_vertex(v) is the number of edges touching v
\* that are connected and not permanent; the subtraction does not underflow.
\* ------------------------------------------------------------------------
C13_NonPermanentCount ==
    \A v \in Vertices(data) :
        /\ get_non_permanent_edges_for_vertex(state, v) >= 0
        /\ get_non_permanent_edges_for_vertex(state, v) =
               Cardinality({e \in state.connected_edges \ state.permanent_edges :
                               Touches(e, v)})

\* ------------------------------------------------------------------------
\* C14: a direct disconnect_edge on a connected permanent edge e of an
\* unlocked triangle t is carried out: e leaves connected_edges, t leaves
\* unlocked_triangles, triangle_reqs[t] goes from 0 to 1, e stays in
\* permanent_edges and permanent_vertices loses no vertex.
\* ------------------------------------------------------------------------
C14_DisconnectRelocks ==
    \A edge \in EdgeArgs(data) : \A t \in state.unlocked_triangles :
        LET eo   == edge_ordered(edge)
            after == disconnect_edge(state, data, edge)
        IN  (/\ eo \in CanonicalEdges(data, t)
             /\ eo \in state.connected_edges
             /\ eo \in state.permanent_edges)
                => /\ eo \notin after.connected_edges
                   /\ t \notin after.unlocked_triangles
                   /\ state.triangle_reqs[t] = 0
                   /\ after.triangle_reqs[t] = 1
                   /\ eo \in after.permanent_edges
                   /\ state.permanent_vertices \subseteq after.permanent_vertices

\* An unlocked triangle with a permanent vertex, whose edges are all connected
\* and permanent.
C14_Witness ==
    \E t \in state.unlocked_triangles :
        /\ CanonicalEdges(data, t) \subseteq state.connected_edges \cap state.permanent_edges
        /\ CornersOf(data, t) \cap state.permanent_vertices # {}
        /\ \E edge \in EdgeArgs(data) :
               /\ edge_ordered(edge) \in CanonicalEdges(data, t)
               /\ disconnect_edge(state, data, edge) # state

\* ------------------------------------------------------------------------
\* C15: when disconnect_from_vertex(v) completes, no connected edge touching
\* v is outside permanent_edges; it has removed exactly the connected
\* non-permanent edges touching v and left everything else unchanged.
\* ------------------------------------------------------------------------
NonPermanentAt(v) ==
    {e \in state.connected_edges \ state.permanent_edges : Touches(e, v)}

C15_DisconnectFromVertexFrame ==
    \A v \in Vertices(data) :
        ~IndexPanics(state, v) =>
            \A order \in Orderings(state.connected_edges_by_vertex[v]) :
                LET after == disconnect_from_vertex(state, data, v, order)
                IN  /\ after.connected_edges = state.connected_edges \ NonPermanentAt(v)
                    /\ after.unlocked_triangles = state.unlocked_triangles
                    /\ after.permanent_edges = state.permanent_edges
                    /\ after.permanent_edges_by_vertex = state.permanent_edges_by_vertex
                    /\ after.permanent_vertices = state.permanent_vertices

\* ------------------------------------------------------------------------
\* C16: connect_edge and disconnect_edge with an edge that is an edge of no
\* triangle (triangles_with_edge returns None).
\* ------------------------------------------------------------------------
UnknownEdge(edge) == edge_ordered(edge) \notin DOMAIN data.edge_to_triangles

\* C16 as stated: both calls leave the whole puzzle state unchanged.
C16_Original ==
    \A edge \in EdgeArgs(data) :
        UnknownEdge(edge) =>
            /\ connect_edge(state, data, edge) = state
            /\ disconnect_edge(state, data, edge) = state

SameBut(after, connected, by_vertex) ==
    after = [state EXCEPT !.connected_edges = connected,
                          !.connected_edges_by_vertex = by_vertex]

\* C16 as amended: both calls leave triangle_reqs, unlocked_triangles and the
\* permanent structures unchanged; connect_edge adds the canonical edge to
\* connected_edges and to the connected-edge entry of both endpoints, and
\* disconnect_edge takes it out of them.
C16_UnknownEdgeOnlyConnects ==
    \A edge \in EdgeArgs(data) :
        UnknownEdge(edge) =>
            LET eo   == edge_ordered(edge)
                con  == connect_edge(state, data, edge)
                dis  == disconnect_edge(state, data, edge)
            IN  /\ SameBut(con, con.connected_edges, con.connected_edges_by_vertex)
                /\ con.connected_edges = state.connected_edges \cup {eo}
                /\ \A v \in Vertices(data) :
                       Touches(eo, v) =>
                           /\ v \in DOMAIN con.connected_edges_by_vertex
                           /\ eo \in con.connected_edges_by_vertex[v]
                /\ SameBut(dis, dis.connected_edges, dis.connected_edges_by_vertex)
                /\ dis.connected_edges = state.connected_edges \ {eo}
                /\ \A v \in DOMAIN dis.connected_edges_by_vertex :
                       eo \notin dis.connected_edges_by_vertex[v]

\* An unknown edge is connected next to an unlocked triangle, and another
\* unknown edge is not connected yet.
C16_Witness ==
    /\ state.unlocked_triangles # {}
    /\ \E e1, e2 \in EdgeArgs(data) :
           /\ UnknownEdge(e1) /\ UnknownEdge(e2)
           /\ edge_ordered(e1) \in state.connected_edges
           /\ edge_ordered(e2) \notin state.connected_edges
           /\ disconnect_edge(state, data, e1) # state
           /\ connect_edge(state, data, e2) # state

\* ------------------------------------------------------------------------
\* C17: in a geometry returned by a successful load the adjacency maps are
\* mutually consistent: every key of edge_to_triangles has its smaller vertex
\* first; triangle t occurs in triangles_with_edge(e), exactly once, iff e is
\* one of the three edges of get_edges_for_triangle(t), and these are the
\* three pairs of t's vertices; num_edges_from_vertex(v) is the number of
\* distinct canonical mesh edges with v as an endpoint.
\* ------------------------------------------------------------------------
Occurrences(seq, x) == Cardinality({i \in 1..Len(seq) : seq[i] = x})

EdgesReturned(d, t) == {get_edges_for_triangle(d, t)[i] : i \in 1..3}

MeshEdges(d) == UNION {CanonicalEdges(d, t) : t \in Triangles(d)}

C17_AdjacencyConsistent ==
    load = "Ok" =>
        /\ \A e \in DOMAIN data.edge_to_triangles : e[1] < e[2]
        /\ DOMAIN data.triangle_to_edges = Triangles(data)
        /\ \A t \in Triangles(data) :
               /\ Len(get_edges_for_triangle(data, t)) = 3
               /\ EdgesReturned(data, t) = CanonicalEdges(data, t)
               /\ Cardinality(EdgesReturned(data, t)) = 3
               /\ \A e \in Vertices(data) \X Vertices(data) :
                      Occurrences(triangles_with_edge(data, e), t) =
                          (IF e \in EdgesReturned(data, t) THEN 1 ELSE 0)
        /\ \A e \in DOMAIN data.edge_to_triangles :
               \A i \in 1..Len(data.edge_to_triangles[e]) :
                   data.edge_to_triangles[e][i] \in Triangles(data)
        /\ \A v \in Vertices(data) :
               num_edges_from_vertex(data, v) =
                   Cardinality({e \in MeshEdges(data) : Touches(e, v)})

\* A load succeeded on a stream with a triangle written in unsorted vertex
\* order and an edge shared by two triangles.
C17_Witness ==
    /\ load = "Ok"
    /\ \E t \in Triangles(data) : data.triangles[t + 1][1] > data.triangles[t + 1][2]
    /\ \E e \in DOMAIN data.edge_to_triangles : Len(triangles_with_edge(data, e)) = 2

\* ------------------------------------------------------------------------
\* C18: in every state reached with connect_edge and disconnect_from_vertex
\* only, permanent_edges is a subset of connected_edges, and no vertex has
\* more permanent edges than connected edges.
\* ------------------------------------------------------------------------
ConnectedCount(v) ==
    IF v \in DOMAIN state.connected_edges_by_vertex
    THEN Cardinality(state.connected_edges_by_vertex[v]) ELSE 0

C18_GuardedPermanentConnected ==
    /\ state.permanent_edges \subseteq state.connected_edges
    /\ \A v \in Vertices(data) :
           get_permanent_edges_for_vertex(state, v) <= ConnectedCount(v)

\* A vertex with permanent and further connected edges, whose
\* disconnect_from_vertex call removes edges.
C18_Witness ==
    \E v \in Vertices(data) :
        /\ get_permanent_edges_for_vertex(state, v) > 0
        /\ ConnectedCount(v) > get_permanent_edges_for_vertex(state, v)
        /\ \E order \in Orderings(state.connected_edges_by_vertex[v]) :
               disconnect_from_vertex(state, data, v, order) # state

\* ------------------------------------------------------------------------
\* C19: the per-vertex indices agree with the edge sets: for every vertex v
\* the connected-edge entry of v (empty if absent) is the set of edges of
\* connected_edges with endpoint v, and the permanent-edge entry of v (empty
\* if absent) is the set of edges of permanent_edges with endpoint v.
\* ------------------------------------------------------------------------
EntryOf(m, v) == IF v \in DOMAIN m THEN m[v] ELSE {}

C19_IndicesAgree ==
    /\ DOMAIN state.connected_edges_by_vertex \subseteq Vertices(data)
    /\ DOMAIN state.permanent_edges_by_vertex \subseteq Vertices(data)
    /\ \A e \in state.connected_edges \cup state.permanent_edges :
           e \in Vertices(data) \X Vertices(data) /\ e[1] < e[2]
    /\ \A v \in Vertices(data) :
           /\ EntryOf(state.connected_edges_by_vertex, v) =
                  {e \in state.connected_edges : Touches(e, v)}
           /\ EntryOf(state.permanent_edges_by_vertex, v) =
                  {e \in state.permanent_edges : Touches(e, v)}

\* A vertex whose connected-edge entry has been emptied again while it keeps
\* permanent edges, next to an edge that was connected in reversed order.
C19_Witness ==
    /\ \E v \in DOMAIN state.connected_edges_by_vertex :
           /\ state.connected_edges_by_vertex[v] = {}
           /\ get_permanent_edges_for_vertex(state, v) > 0
    /\ state.connected_edges # {}
    /\ \E edge \in EdgeArgs(data) :
           /\ edge[1] > edge[2]
           /\ connect_edge(state, data, edge) # state

\* ------------------------------------------------------------------------
\* C20: hit-testing and drawing agree in every reachable state: the dynamic
\* buffer holds a point quad for vertex v iff should_be_interactable(v) is
\* true, get_vertex_near returns such vertices only, and the k-th quad, in
\* increasing vertex index order from k = 0, uses index base 4k.
\* ------------------------------------------------------------------------
Drawn(g) == {g.point_quads[k].vertex : k \in 1..Len(g.point_quads)}

Interactable(build) ==
    {v \in Vertices(data) :
        LET r == should_be_interactable(state, data, v, build)
        IN  ~r.fault /\ r.value}

AgreeOn(build) ==
    LET g == from_data_and_state(data, state, build)
    IN  /\ ~g.fault
        /\ Drawn(g) = Interactable(build)
        /\ \A near \in SUBSET Vertices(data) :
               LET hit == get_vertex_near(data, state, near, build)
               IN  /\ ~hit.fault
                   /\ hit.found \subseteq Drawn(g) \cap near
                   /\ (hit.found = {}) = (Drawn(g) \cap near = {})
        /\ \A k \in 1..Len(g.point_quads) :
               /\ g.point_quads[k].indices = PointQuadIndices(4 * (k - 1))
               /\ \A j \in 1..(k - 1) :
                      g.point_quads[j].vertex < g.point_quads[k].vertex

C20_HitTestAndDrawingAgree == \A build \in Builds : AgreeOn(build)

====
